---------------------------- MODULE Spec2Model ----------------------------
(***************************************************************************)
(* Model of radio_editor.py: the live_streams.sii station codec, parser    *)
(* and writer, the editor page that drives them, and the file linking.     *)
(*                                                                         *)
(* Text is a sequence of tokens.  A token is one character, except that    *)
(* the literal word stream_data is the single token SD.  A file's content  *)
(* is the text Path.read_text returns for it; a line keeps its terminator. *)
(* Python's 0-based list indexes are kept 0-based (station_line_indexes),  *)
(* and converted where a TLA+ sequence is indexed.                         *)
(***************************************************************************)
EXTENDS Integers, Sequences, FiniteSets, TLC

\* ------------------------------------------------------------------ text

SD == "stream_data"
NL == "\n"
QT == "\""
BAR == "|"

\* Characters str.strip() removes and \s matches.
WS == {" ", "\t", NL}

DigitTok == <<"0", "1", "2", "3", "4", "5", "6", "7", "8", "9">>

IsDigit(t) == \E d \in 1..10 : DigitTok[d] = t

DigitVal(t) == (CHOOSE d \in 1..10 : DigitTok[d] = t) - 1

\* F of the value of e: e is evaluated once, however often F uses it.
With(e, F(_)) == CHOOSE v \in {F(x) : x \in {e}} : TRUE

Min(a, b) == IF a < b THEN a ELSE b

Max(a, b) == IF a > b THEN a ELSE b

RECURSIVE Concat(_)
\* "".join(lines)
Concat(ss) == IF ss = <<>> THEN <<>> ELSE Head(ss) \o Concat(Tail(ss))

RECURSIVE LStrip(_)
LStrip(s) == IF s # <<>> /\ Head(s) \in WS THEN LStrip(Tail(s)) ELSE s

RECURSIVE RStrip(_)
RStrip(s) ==
    IF s # <<>> /\ s[Len(s)] \in WS THEN RStrip(SubSeq(s, 1, Len(s) - 1)) ELSE s

\* str.strip()
Strip(s) == LStrip(RStrip(s))

RECURSIVE RStripNL(_)
\* str.rstrip("\n")
RStripNL(s) ==
    IF s # <<>> /\ s[Len(s)] = NL THEN RStripNL(SubSeq(s, 1, Len(s) - 1)) ELSE s

\* Index of the first token at or after i that is not whitespace (Len+1 if none).
RECURSIVE SkipWS(_, _)
SkipWS(s, i) == IF i <= Len(s) /\ s[i] \in WS THEN SkipWS(s, i + 1) ELSE i

\* Index of the first token at or after i that is not a digit (Len+1 if none).
RECURSIVE SkipDigits(_, _)
SkipDigits(s, i) == IF i <= Len(s) /\ IsDigit(s[i]) THEN SkipDigits(s, i + 1) ELSE i

\* Index of the first line terminator at or after i (Len+1 if none).
NextNL(text, i) ==
    IF \E k \in i..Len(text) : text[k] = NL
    THEN CHOOSE k \in i..Len(text) : text[k] = NL /\ \A j \in i..(k - 1) : text[j] # NL
    ELSE Len(text) + 1

\* str.splitlines(True): cut after every line terminator, terminators kept.
RECURSIVE SplitLinesFrom(_, _)
SplitLinesFrom(text, i) ==
    IF i > Len(text) THEN <<>>
    ELSE With(Min(NextNL(text, i), Len(text)),
              LAMBDA e : <<SubSeq(text, i, e)>> \o SplitLinesFrom(text, e + 1))

SplitLines(text) == With(text, LAMBDA t : SplitLinesFrom(t, 1))

\* str.split("|"): the fields between the delimiters, empty fields kept.
RECURSIVE SplitBarFrom(_, _)
SplitBarFrom(s, cur) ==
    IF s = <<>> THEN <<cur>>
    ELSE IF Head(s) = BAR
         THEN <<cur>> \o SplitBarFrom(Tail(s), <<>>)
         ELSE SplitBarFrom(Tail(s), Append(cur, Head(s)))

SplitBar(s) == SplitBarFrom(s, <<>>)

RECURSIVE IntOfDigits(_, _)
IntOfDigits(s, acc) ==
    IF s = <<>> THEN acc ELSE IntOfDigits(Tail(s), 10 * acc + DigitVal(Head(s)))

\* int(text) with the ValueError caught: surrounding whitespace is ignored,
\* anything that is not a run of digits gives 0.
IntOrZero(s) ==
    LET t == Strip(s)
    IN  IF t # <<>> /\ \A k \in 1..Len(t) : IsDigit(t[k]) THEN IntOfDigits(t, 0) ELSE 0

RECURSIVE Digits(_)
\* str(n) for n >= 0
Digits(n) ==
    IF n < 10 THEN <<DigitTok[n + 1]>>
    ELSE Digits(n \div 10) \o <<DigitTok[(n % 10) + 1]>>

\* Largest index of token t in s (0 if none).
LastIndexOf(s, t) ==
    IF \E k \in 1..Len(s) : s[k] = t
    THEN CHOOSE k \in 1..Len(s) : s[k] = t /\ \A j \in (k + 1)..Len(s) : s[j] # t
    ELSE 0

\* ----------------------------------------------------------- the codec

\* STREAM_RE.match: ^\s*stream_data\[(\d+)\]\s*:\s*"(.*)"\s*$
\* The match as [ok, payload]; the payload is group 2 (greedy: it ends at
\* the last quote, after which only whitespace may follow).
StreamMatch(s) ==
    LET i0 == SkipWS(s, 1)
        d0 == i0 + 2
        d1 == SkipDigits(s, d0)
        c0 == SkipWS(s, d1 + 1)
        q0 == SkipWS(s, c0 + 1)
        q1 == LastIndexOf(s, QT)
        ok == /\ i0 + 1 <= Len(s)
              /\ s[i0] = SD
              /\ s[i0 + 1] = "["
              /\ d1 > d0
              /\ d1 <= Len(s) /\ s[d1] = "]"
              /\ c0 <= Len(s) /\ s[c0] = ":"
              /\ q0 <= Len(s) /\ s[q0] = QT
              /\ q1 > q0
              /\ \A k \in (q1 + 1)..Len(s) : s[k] \in WS
              /\ \A k \in (q0 + 1)..(q1 - 1) : s[k] # NL
    IN  [ok |-> ok, payload |-> IF ok THEN SubSeq(s, q0 + 1, q1 - 1) ELSE <<>>]

\* STREAM_COUNT_RE.match: ^(\s*stream_data\s*:\s*)(\d+)(\s*)$
\* The match as [ok, prefix, old, suffix] (groups 1, 2 and 3).
CountMatch(s) ==
    LET i0 == SkipWS(s, 1)
        c0 == SkipWS(s, i0 + 1)
        d0 == SkipWS(s, c0 + 1)
        d1 == SkipDigits(s, d0)
        ok == /\ i0 <= Len(s) /\ s[i0] = SD
              /\ c0 <= Len(s) /\ s[c0] = ":"
              /\ d1 > d0
              /\ \A k \in d1..Len(s) : s[k] \in WS
    IN  [ok |-> ok,
         prefix |-> IF ok THEN SubSeq(s, 1, d0 - 1) ELSE <<>>,
         old |-> IF ok THEN SubSeq(s, d0, d1 - 1) ELSE <<>>,
         suffix |-> IF ok THEN SubSeq(s, d1, Len(s)) ELSE <<>>]

\* The Station dataclass.
Station(u, n, g, l, b, f) ==
    [url |-> u, name |-> n, genre |-> g, language |-> l, bitrate |-> b, favorite |-> f]

\* The body of parse_live_streams' loop for one line: [ok, station].
NoStation == Station(<<>>, <<>>, <<>>, <<>>, 0, FALSE)

DecodeLine(line) ==
    With(RStripNL(line), LAMBDA s :
    With(StreamMatch(s), LAMBDA m :
    With(SplitBar(m.payload), LAMBDA parts :
        IF m.ok /\ Len(parts) = 6
        THEN [ok |-> TRUE,
              station |-> Station(Strip(parts[1]), Strip(parts[2]), Strip(parts[3]),
                                  Strip(parts[4]), IntOrZero(parts[5]),
                                  Strip(parts[6]) = <<"1">>)]
        ELSE [ok |-> FALSE, station |-> NoStation])))

HasBar(field) == \E k \in 1..Len(field) : field[k] = BAR

\* A delimiter check that forgets the name.
FieldHasDelimiter_NoName(s) == HasBar(s.url) \/ HasBar(s.genre) \/ HasBar(s.language)

\* station_to_line raises ValueError for these stations.
FieldHasDelimiter(s) ==
    HasBar(s.url) \/ HasBar(s.name) \/ HasBar(s.genre) \/ HasBar(s.language)

\* An encoder that writes every flag as 0.
station_to_line_NoFlag(i, s) ==
    <<SD, "[">> \o Digits(i) \o <<"]", ":", " ", QT>>
        \o s.url \o <<BAR>> \o s.name \o <<BAR>> \o s.genre \o <<BAR>> \o s.language
        \o <<BAR>> \o Digits(s.bitrate) \o <<BAR, "0", QT, NL>>

\* An encoder that gives every line the ordinal 0.
station_to_line_SameOrdinal(i, s) ==
    <<SD, "[", "0", "]", ":", " ", QT>>
        \o s.url \o <<BAR>> \o s.name \o <<BAR>> \o s.genre \o <<BAR>> \o s.language
        \o <<BAR>> \o Digits(s.bitrate) \o <<BAR>>
        \o <<IF s.favorite THEN "1" ELSE "0">> \o <<QT, NL>>

\* station_to_line(i, s), for a station it does not reject.
station_to_line(i, s) ==
    <<SD, "[">> \o Digits(i) \o <<"]", ":", " ", QT>>
        \o s.url \o <<BAR>> \o s.name \o <<BAR>> \o s.genre \o <<BAR>> \o s.language
        \o <<BAR>> \o Digits(s.bitrate)
        \o <<BAR, IF s.favorite THEN "1" ELSE "0", QT, NL>>


\* ----------------------------------------------------------- the parser

\* A loop that counts the lines from 1.
RECURSIVE ScanLines_OneBased(_, _)
ScanLines_OneBased(lines, k) ==
    IF k > Len(lines) THEN [idxs |-> <<>>, stations |-> <<>>]
    ELSE With(DecodeLine(lines[k]), LAMBDA d :
         With(ScanLines_OneBased(lines, k + 1), LAMBDA rest :
             IF d.ok
             THEN [idxs |-> <<k>> \o rest.idxs,
                   stations |-> <<d.station>> \o rest.stations]
             ELSE rest))

\* The loop of parse_live_streams over lines[k..]: the 0-based indexes of the
\* lines that decode, and their stations, in file order.
RECURSIVE ScanLines(_, _)
ScanLines(lines, k) ==
    IF k > Len(lines) THEN [idxs |-> <<>>, stations |-> <<>>]
    ELSE With(DecodeLine(lines[k]), LAMBDA d :
         With(ScanLines(lines, k + 1), LAMBDA rest :
             IF d.ok
             THEN [idxs |-> <<k - 1>> \o rest.idxs,
                   stations |-> <<d.station>> \o rest.stations]
             ELSE rest))

\* A parser that takes a file without stations for a document.
parse_live_streams_EmptyOk(text) ==
    With(SplitLines(text), LAMBDA lines :
    With(ScanLines(lines, 1), LAMBDA scan :
        [ok |-> TRUE,
         lines |-> lines,
         station_line_indexes |-> scan.idxs,
         stations |-> scan.stations]))

\* parse_live_streams on the text of an existing file.  ok = FALSE is the
\* ValueError "No stream_data[...] station entries found in this file."
parse_live_streams(text) ==
    With(SplitLines(text), LAMBDA lines :
    With(ScanLines(lines, 1), LAMBDA scan :
        [ok |-> scan.stations # <<>>,
         lines |-> lines,
         station_line_indexes |-> scan.idxs,
         stations |-> scan.stations]))

\* ----------------------------------------------------------- the writer

\* The while loop of _find_trailing_brace_tail_start, from i down.
RECURSIVE TailStartFrom(_, _)
TailStartFrom(lines, i) ==
    IF i > 0 /\ Strip(lines[i]) \in {<<>>, <<"}">>}
    THEN TailStartFrom(lines, i - 1)
    ELSE i

\* _find_trailing_brace_tail_start
find_trailing_brace_tail_start(lines) == TailStartFrom(lines, Len(lines))

\* A count line rewritten with the count one too small.
CountLine_OffByOne(line, count) ==
    With(CountMatch(RStripNL(line)), LAMBDA m :
        m.prefix \o Digits(Max(count - 1, 0)) \o m.suffix
            \o (IF line # <<>> /\ line[Len(line)] = NL THEN <<NL>> ELSE <<>>))

\* The line _update_stream_data_count_line writes over a matching line.
CountLine(line, count) ==
    With(CountMatch(RStripNL(line)), LAMBDA m :
        m.prefix \o Digits(count) \o m.suffix
            \o (IF line # <<>> /\ line[Len(line)] = NL THEN <<NL>> ELSE <<>>))

\* _update_stream_data_count_line: the first matching line is rewritten, and
\* the loop returns there.
RECURSIVE update_stream_data_count_line(_, _)
update_stream_data_count_line(lines, count) ==
    IF lines = <<>> THEN <<>>
    ELSE IF CountMatch(RStripNL(Head(lines))).ok
         THEN <<CountLine(Head(lines), count)>> \o Tail(lines)
         ELSE <<Head(lines)>> \o update_stream_data_count_line(Tail(lines), count)

\* sorted(station_line_indexes)
RECURSIVE InsertSorted(_, _)
InsertSorted(x, s) ==
    IF s = <<>> THEN <<x>>
    ELSE IF x <= Head(s) THEN <<x>> \o s
    ELSE <<Head(s)>> \o InsertSorted(x, Tail(s))

RECURSIVE Sorted(_)
Sorted(s) ==
    IF s = <<>> THEN <<>> ELSE With(Sorted(Tail(s)), LAMBDA t : InsertSorted(Head(s), t))

\* del lines[i] for the 0-based index i (in range).
DelAt(lines, i) == SubSeq(lines, 1, i) \o SubSeq(lines, i + 2, Len(lines))

\* A removal that leaves the old station lines in the list.
RemoveStationLines_Keep(lines, idxs) == [ok |-> TRUE, lines |-> lines]

\* "for i in reversed(idxs): del lines[i]": [ok, lines]; ok = FALSE is the
\* IndexError of an index outside the list.
RECURSIVE RemoveStationLines(_, _)
RemoveStationLines(lines, idxs) ==
    IF idxs = <<>> THEN [ok |-> TRUE, lines |-> lines]
    ELSE With(idxs[Len(idxs)], LAMBDA i :
             IF i >= Len(lines) THEN [ok |-> FALSE, lines |-> lines]
             ELSE With(DelAt(lines, i), LAMBDA rest :
                  With(SubSeq(idxs, 1, Len(idxs) - 1), LAMBDA before :
                      RemoveStationLines(rest, before))))

\* An encoding of the list that leaves its last station out.
EncodeAll_DropLast(stations) ==
    [k \in 1..(Len(stations) - 1) |-> station_to_line(k - 1, stations[k])]

\* [station_to_line(i, s) for i, s in enumerate(stations)]
EncodeAll(stations) == [k \in 1..Len(stations) |-> station_to_line(k - 1, stations[k])]

\* A new_slot branch that puts the station block after the tail.
NewSlotLines_AfterTail(lines, new_station_lines) == lines \o new_station_lines

\* The new_slot branch of write_live_streams, on the lines left after the
\* station lines are removed.
NewSlotLines(lines, new_station_lines) ==
    With(find_trailing_brace_tail_start(lines), LAMBDA tail_start :
        LET prefix0 == SubSeq(lines, 1, tail_start)
            tail == SubSeq(lines, tail_start + 1, Len(lines))
            prefix == IF prefix0 # <<>> /\ Strip(prefix0[Len(prefix0)]) # <<>>
                      THEN Append(prefix0, <<NL>>) ELSE prefix0
            n == Len(new_station_lines)
            station_block ==
                IF tail # <<>> /\ Strip(tail[1]) = <<"}">>
                   /\ n > 0 /\ Strip(new_station_lines[n]) # <<>>
                THEN Append(new_station_lines, <<NL>>) ELSE new_station_lines
        IN  prefix \o station_block \o tail)

\* An in_place branch that puts the new lines at the end of the list.
InPlaceLines_AtEnd(lines, idxs, new_station_lines) == lines \o new_station_lines

\* An in_place branch that puts the new lines where the last old station
\* line was.
InPlaceLines_AtLast(lines, idxs, new_station_lines) ==
    LET first == Max(0, Min(idxs[Len(idxs)], Len(lines)))
    IN  SubSeq(lines, 1, first) \o new_station_lines \o SubSeq(lines, first + 1, Len(lines))

\* The in_place branch: the new lines go in one after the other from the
\* smallest old station index, clamped to the list.
InPlaceLines(lines, idxs, new_station_lines) ==
    LET first == Max(0, Min(idxs[1], Len(lines)))
    IN  SubSeq(lines, 1, first) \o new_station_lines \o SubSeq(lines, first + 1, Len(lines))

\* What write_live_streams computes after its backup is written:
\* [err, text].  err is "" when p.write_text(text) is reached, else the
\* exception raised before it: "delimiter" (station_to_line), "index"
\* (del lines[i], or idxs[0] of an empty list).
WriteResult(original_lines, station_line_indexes, stations, strategy) ==
    IF \E k \in 1..Len(stations) : FieldHasDelimiter(stations[k])
    THEN [err |-> "delimiter", text |-> <<>>]
    ELSE With(EncodeAll(stations), LAMBDA new_station_lines :
         With(Sorted(station_line_indexes), LAMBDA idxs :
         With(RemoveStationLines(original_lines, idxs), LAMBDA removed :
             IF ~removed.ok THEN [err |-> "index", text |-> <<>>]
             ELSE IF strategy # "new_slot" /\ idxs = <<>> THEN [err |-> "index", text |-> <<>>]
             ELSE With(IF strategy = "new_slot"
                       THEN NewSlotLines(removed.lines, new_station_lines)
                       ELSE InPlaceLines(removed.lines, idxs, new_station_lines),
                       LAMBDA placed :
                  With(update_stream_data_count_line(placed, Len(stations)), LAMBDA out :
                      [err |-> "", text |-> Concat(out)])))))

\* ------------------------------------------------------- the file system

VARIABLES
    fs,                     \* path -> what the path names
    data,                   \* inode -> text of the file
    bak,                    \* <<path, ts>> -> text of live_streams_backup/<name>.bak_<ts>
    clock,                  \* datetime.now(), in seconds
    file_path,              \* EditorPage.file_path ("" for None), or the caller's path
    original_lines,         \* EditorPage.original_lines, or the caller's parsed lines
    station_line_indexes,   \* EditorPage.station_line_indexes
    stations,               \* EditorPage.model.stations, or the caller's station list
    pc,                     \* where the caller of parse and write is
    page,                   \* MainWindow.stack.currentWidget(): "open" or "editor"
    current_edit_source_row,    \* EditorPage.current_edit_source_row (-1 for None)
    last,                   \* the last call of write_live_streams (of dropMimeData in SpecDrop),
                            \* for the properties
    calls,                  \* all calls of write_live_streams so far, for the properties
    host,                   \* the machine: platform.system(), the drives of the two paths
    temp,                   \* the radio_link_* files in the TEMP directory
    linked                  \* the last call of link_live_streams_force_admin_symlink

vars == <<fs, data, bak, clock, file_path, original_lines, station_line_indexes,
          stations, pc, page, current_edit_source_row, last, calls, host, temp, linked>>

\* What the parser, the writer and the editor never touch.
linkVars == <<host, temp, linked>>

Absent == [k |-> "absent"]

File(i) == [k |-> "file", ino |-> i]

Symlink(target) == [k |-> "symlink", to |-> target]

Dir == [k |-> "dir"]

\* What path p leads to in the file system f once a symbolic link is
\* followed: Absent for a link to nothing and for a link to a link.
ResolveIn(f, p) ==
    IF f[p].k = "symlink"
    THEN (IF f[p].to \in DOMAIN f /\ f[f[p].to].k # "symlink" THEN f[f[p].to] ELSE Absent)
    ELSE f[p]

Resolve(p) == ResolveIn(fs, p)

\* Path.is_file()
IsFile(p) == Resolve(p).k = "file"

\* Path.read_text
ReadText(p) == data[Resolve(p).ino]

\* The name of the backup a write of path p makes at second t.  The two game
\* files live in different folders, so their backup folders differ.
BackupKey(p, t) == <<p, t>>

\* Path.write_text on a backup path: the file is created, or truncated and
\* rewritten when the name is taken.
WriteBackup(b, key, text) ==
    [k \in DOMAIN b \cup {key} |-> IF k = key THEN text ELSE b[k]]

\* Path.write_text on a regular file: open(path, "w") truncates the file the
\* path names and writes the text; the inode stays.
WriteText(d, p, text) == [d EXCEPT ![Resolve(p).ino] = text]

NoHost == [windows |-> FALSE, same_drive |-> FALSE]

NoLink == [status |-> "none", via |-> "", backup |-> "", prior |-> Absent, prior_text |-> <<>>,
           hardlink_tried |-> FALSE, elevated |-> FALSE, dest |-> ""]

NoCall == [path |-> "", strategy |-> "", err |-> "none", stations |-> <<>>,
           lines |-> <<>>, idxs |-> <<>>, pre |-> <<>>, preBak |-> <<>>, key |-> <<>>]

\* write_live_streams(path, original_lines, station_line_indexes, stations,
\* strategy) on a regular file: the backup of "".join(original_lines) is
\* written first; the target is written last, unless an exception came first.
write_live_streams(p, lines, idxs, sts, strategy) ==
    \E key \in {BackupKey(p, clock)}, r \in {WriteResult(lines, idxs, sts, strategy)} :
        /\ bak' = WriteBackup(bak, key, Concat(lines))
        /\ data' = IF r.err = "" THEN WriteText(data, p, r.text) ELSE data
        /\ last' = [path |-> p, strategy |-> strategy, err |-> r.err,
                    stations |-> sts, lines |-> lines, idxs |-> idxs,
                    pre |-> ReadText(p), preBak |-> bak, key |-> key]
        /\ calls' = Append(calls, [path |-> p, key |-> key, err |-> r.err,
                                   text |-> Concat(lines)])

\* ------------------------------------------------- the inputs of the model

\* Longest file, in lines.
MaxLines == 4

\* Last second of the clock.
MaxClock == 1

\* Lines a file is made of: two station lines as station_to_line writes them,
\* a station line in another layout (indented, ordinal 7, padded fields, empty
\* genre, a bitrate and a flag that are no numbers), the record count line, a
\* blank line, a closing brace, and a stream_data[0] line whose payload has
\* two fields.
LineA == <<SD, "[", "0", "]", ":", " ", QT, "u", BAR, "a", BAR, "g", BAR, "l", BAR,
           "1", BAR, "0", QT, NL>>

LineB == <<SD, "[", "1", "]", ":", " ", QT, "u", BAR, "b", BAR, "g", BAR, "l", BAR,
           "2", BAR, "1", QT, NL>>

LineN == <<" ", SD, "[", "7", "]", " ", ":", QT, " ", "u", BAR, "c", " ", BAR, BAR,
           "l", BAR, "x", BAR, "y", QT, " ", NL>>

LineCount == <<" ", SD, ":", " ", "2", " ", NL>>

LineBlank == <<NL>>

LineBrace == <<"}", NL>>

LineBad == <<SD, "[", "0", "]", ":", QT, "u", BAR, "a", QT, NL>>

Catalogue == {LineA, LineB, LineN, LineCount, LineBlank, LineBrace, LineBad}

\* Two longer files: a count line, two station lines, a blank line and a
\* closing brace, without and with a blank line below the count line.
SampleFile == <<LineCount, LineA, LineB, LineBlank, LineBrace>>

SampleSpaced == <<LineCount, LineBlank, LineA, LineB, LineBlank, LineBrace>>

\* The texts of the files: up to MaxLines lines, or one of the longer files,
\* the last line with or without its terminator.
Texts ==
    UNION {{Concat(f), RStripNL(Concat(f))} :
              f \in UNION {[1..n -> Catalogue] : n \in 0..MaxLines} \cup {SampleFile, SampleSpaced}}

\* Stations a caller adds: one the form accepts, one with the delimiter in
\* its name, one whose name is not trimmed, one with a line break in its name.
StationX == Station(<<"u">>, <<"x">>, <<"g">>, <<"l">>, 12, TRUE)

StationPad == Station(<<"u">>, <<" ", "x">>, <<"g">>, <<"l">>, 3, FALSE)

StationNL == Station(<<"u">>, <<"x", NL, "y">>, <<"g">>, <<"l">>, 3, FALSE)

StationBar == Station(<<"u">>, <<"x", BAR, "y">>, <<"g">>, <<"l">>, 0, FALSE)

Toggle(sts, k) == [sts EXCEPT ![k].favorite = ~sts[k].favorite]

Without(sts, k) == SubSeq(sts, 1, k - 1) \o SubSeq(sts, k + 1, Len(sts))

Swap(sts, k) == [sts EXCEPT ![k] = sts[k + 1], ![k + 1] = sts[k]]

\* The station lists a caller passes to write after parsing sts: the list
\* itself, one flag flipped, one station or all removed, two neighbours
\* swapped, one station replaced, a station appended (also after a swap).
Edits(sts) ==
    {sts, <<>>, Append(sts, StationX), Append(sts, StationBar), Append(sts, StationPad),
     Append(sts, StationNL)}
        \cup {Toggle(sts, k) : k \in 1..Len(sts)}
        \cup {Without(sts, k) : k \in 1..Len(sts)}
        \cup {Swap(sts, k) : k \in 1..(Len(sts) - 1)}
        \cup {[sts EXCEPT ![k] = StationX] : k \in 1..Len(sts)}
        \cup {Append(Swap(sts, k), StationX) : k \in 1..(Len(sts) - 1)}

Strategies == {"in_place", "new_slot"}

\* ------------------------------------- parse and write, called by a client

InitWrite ==
    /\ \/ /\ fs = [p \in {"ats"} |-> Absent]
          /\ data = <<>>
       \/ /\ fs = [p \in {"ats"} |-> File(1)]
          /\ \E t \in Texts : data = <<t>>
    /\ bak = <<>>
    /\ clock = 0
    /\ file_path = "ats"
    /\ original_lines = <<>>
    /\ station_line_indexes = <<>>
    /\ stations = <<>>
    /\ pc = "start"
    /\ page = "none"
    /\ current_edit_source_row = -1
    /\ last = NoCall
    /\ calls = <<>>
    /\ host = NoHost
    /\ temp = {}
    /\ linked = NoLink

\* parse_live_streams(path): the caller keeps what it returns.
ClientParse ==
    /\ pc = "start"
    /\ IF ~IsFile(file_path)
       THEN /\ pc' = "FileNotFound"
            /\ UNCHANGED <<original_lines, station_line_indexes, stations>>
       ELSE \E r \in {parse_live_streams(ReadText(file_path))} :
                IF r.ok
                THEN /\ pc' = "parsed"
                     /\ original_lines' = r.lines
                     /\ station_line_indexes' = r.station_line_indexes
                     /\ stations' = r.stations
                ELSE /\ pc' = "NoStationsFound"
                     /\ UNCHANGED <<original_lines, station_line_indexes, stations>>
    /\ UNCHANGED <<fs, data, bak, clock, file_path, page, current_edit_source_row, last, calls,
                   linkVars>>

\* write_live_streams(path, lines, idxs, L, strategy), with the document the
\* caller parsed and a station list L it made from the parsed one.
ClientWrite ==
    /\ pc = "parsed"
    /\ \E L \in Edits(stations), strategy \in Strategies :
          /\ write_live_streams(file_path, original_lines, station_line_indexes, L, strategy)
          /\ stations' = L
    /\ pc' = "written"
    /\ UNCHANGED <<fs, clock, file_path, original_lines, station_line_indexes, page,
                   current_edit_source_row, linkVars>>

NextWrite == ClientParse \/ ClientWrite

SpecWrite == InitWrite /\ [][NextWrite]_vars

\* ------------------------------------------------------------ properties

\* The write the state records went through to p.write_text.
Written == pc = "written" /\ last.err = ""

\* The lines of the file as parse_live_streams reads them now.
NowLines == SplitLines(ReadText(file_path))

\* The stations parse_live_streams finds in the document the write was given.
DocStations == ScanLines(last.lines, 1).stations

\* A text field as the parser and the form's validation make them: no
\* surrounding whitespace, no line break.
CleanField(f) == Strip(f) = f /\ \A k \in 1..Len(f) : f[k] # NL

Clean(s) ==
    CleanField(s.url) /\ CleanField(s.name) /\ CleanField(s.genre) /\ CleanField(s.language)

AllClean(sts) == \A k \in 1..Len(sts) : Clean(sts[k])

\* C1 as claimed (for lists as the parser and the form make them): after a
\* write that succeeds, for every station list, the empty one included,
\* parsing the file succeeds and returns the list that was written.
C1_RoundTripEveryList ==
    (Written /\ AllClean(last.stations)) =>
        LET r == parse_live_streams(ReadText(file_path))
        IN  r.ok /\ r.stations = last.stations

\* C1 as amended: after a write that succeeds of a non-empty list of stations
\* whose fields are trimmed and hold no line break, under either strategy, parsing the file succeeds and
\* returns the stations that were written, field for field and in order (the
\* appended ones after the retained ones); after a write of the empty list,
\* parsing the file fails with NoStationsFound.
C1_RoundTrip ==
    LET r == parse_live_streams(ReadText(file_path))
    IN  /\ (Written /\ last.stations # <<>> /\ AllClean(last.stations)) =>
               (r.ok /\ r.stations = last.stations)
        /\ (Written /\ last.stations = <<>>) => ~r.ok

\* A new_slot write of a reordered list with a station appended, read back.
C1_Witness ==
    /\ Written
    /\ last.strategy = "new_slot"
    /\ Len(last.stations) = 3
    /\ last.stations[3] = StationX
    /\ last.stations[1] # DocStations[1]
    /\ parse_live_streams(ReadText(file_path)).stations = last.stations

\* The lines of the document the write was given that are not at a
\* station_line_indexes position, in order.
RECURSIVE OtherLinesFrom(_, _, _)
OtherLinesFrom(lines, idxs, k) ==
    IF k > Len(lines) THEN <<>>
    ELSE (IF \E j \in 1..Len(idxs) : idxs[j] = k - 1 THEN <<>> ELSE <<lines[k]>>)
             \o OtherLinesFrom(lines, idxs, k + 1)

DocOtherLines == OtherLinesFrom(last.lines, last.idxs, 1)

Terminator(line) == IF line # <<>> /\ line[Len(line)] = NL THEN <<NL>> ELSE <<>>

\* Line b is line a, or both are record-count lines that differ in the
\* integer only.
SameButCount(a, b) ==
    \/ a = b
    \/ LET ma == CountMatch(RStripNL(a))
           mb == CountMatch(RStripNL(b))
       IN  /\ ma.ok /\ mb.ok
           /\ ma.prefix = mb.prefix /\ ma.suffix = mb.suffix
           /\ Terminator(a) = Terminator(b)

\* The lines xs appear among the lines ys, in order.
RECURSIVE Embeds(_, _)
Embeds(xs, ys) ==
    IF xs = <<>> THEN TRUE
    ELSE IF ys = <<>> THEN FALSE
    ELSE IF SameButCount(Head(xs), Head(ys)) THEN Embeds(Tail(xs), Tail(ys))
    ELSE Embeds(xs, Tail(ys))

\* C3: after a write that succeeds, under either strategy, every line of the
\* parsed document that is no station line is in the written file with the
\* same content and the same terminator, in the original order; only the
\* integer of a record-count line may differ.
C3_OtherLinesPreserved == Written => Embeds(DocOtherLines, NowLines)

\* The record-count lines among lines, in order.
CountLines(lines) == SelectSeq(lines, LAMBDA l : CountMatch(RStripNL(l)).ok)

\* The integer a record-count line carries.
CountOf(line) == IntOrZero(CountMatch(RStripNL(line)).old)

\* How many of the lines decode to a station.
NumStationLines(lines) == Len(ScanLines(lines, 1).stations)

\* C4 as claimed (for lists as the parser and the form make them): after a
\* write of L that succeeds, every record-count line of the written file
\* carries len(L), the number of its station lines.
C4_EveryCountLine ==
    (Written /\ AllClean(last.stations)) =>
        /\ \A k \in 1..Len(NowLines) :
              CountMatch(RStripNL(NowLines[k])).ok => CountOf(NowLines[k]) = Len(last.stations)
        /\ NumStationLines(NowLines) = Len(last.stations)

\* C4 as amended: after a write that succeeds of a list L of stations whose
\* fields hold no line break, the first record-count line of the written
\* file, if it has one, carries len(L), which is the number of station lines
\* of the written file; the later record-count lines keep their integers.
C4_FirstCountLine ==
    (Written /\ AllClean(last.stations)) =>
        LET now == CountLines(NowLines)
            was == CountLines(DocOtherLines)
        IN  /\ Len(now) = Len(was)
            /\ now # <<>> => CountOf(now[1]) = Len(last.stations)
            /\ \A k \in 2..Len(now) : CountOf(now[k]) = CountOf(was[k])
            /\ NumStationLines(NowLines) = Len(last.stations)

\* A write that changes the number of stations of a file with a count line.
C4_Witness ==
    /\ Written
    /\ Len(last.stations) = 3
    /\ Len(DocStations) = 2
    /\ CountLines(NowLines) # <<>>
    /\ CountOf(CountLines(DocOtherLines)[1]) = 2
    /\ CountOf(CountLines(NowLines)[1]) = 3

\* The delimiter occurs in one of the four text fields of the station.
BarInText(s) == \E f \in {s.url, s.name, s.genre, s.language} : \E k \in 1..Len(f) : f[k] = BAR

\* C6 as claimed: a write of a list with the delimiter in a text field of a
\* station fails with the delimiter error and creates or modifies no file,
\* the target or any other.
C6_NoFileTouched ==
    (pc = "written" /\ \E k \in 1..Len(last.stations) : BarInText(last.stations[k])) =>
        /\ last.err = "delimiter"
        /\ ReadText(file_path) = last.pre
        /\ bak = last.preBak

\* C6 as amended: such a write fails with the delimiter error and leaves the
\* target file as it was; the one file it creates or rewrites is the backup
\* of this call, which holds the lines of the document it was given.
C6_TargetUntouched ==
    (pc = "written" /\ \E k \in 1..Len(last.stations) : BarInText(last.stations[k])) =>
        /\ last.err = "delimiter"
        /\ ReadText(file_path) = last.pre
        /\ DOMAIN bak = DOMAIN last.preBak \cup {last.key}
        /\ \A k \in DOMAIN last.preBak \ {last.key} : bak[k] = last.preBak[k]
        /\ bak[last.key] = Concat(last.lines)

\* A write that is refused for the delimiter, of a list that would have
\* changed the file.
C6_Witness ==
    /\ pc = "written"
    /\ last.err = "delimiter"
    /\ Len(last.stations) = 3
    /\ last.strategy = "new_slot"
    /\ ReadText(file_path) = last.pre

\* ------------------------------------------------ C7: the in_place edit

\* The written list is the parsed one with the favorite flag of station k
\* flipped, written in_place.
FlagEdit(k) ==
    /\ Written /\ last.strategy = "in_place"
    /\ k \in 1..Len(DocStations)
    /\ last.stations = Toggle(DocStations, k)

\* Line b is line a with one token changed, in the last field of the payload.
FlagFlipped(a, b) ==
    /\ Len(a) = Len(b)
    /\ \E p \in 1..Len(a) :
          /\ p > LastIndexOf(a, BAR)
          /\ a[p] # b[p]
          /\ \A q \in 1..Len(a) : q # p => a[q] = b[q]

\* The file differs from the document in the flag of the line of station k
\* only, and the backup of the call holds the lines of the document.
OnlyFlagOf(k) ==
    /\ Len(NowLines) = Len(last.lines)
    /\ \A j \in 1..Len(last.lines) :
          IF j = last.idxs[k] + 1
          THEN FlagFlipped(last.lines[j], NowLines[j])
          ELSE NowLines[j] = last.lines[j]
    /\ last.key \in DOMAIN bak
    /\ bak[last.key] = Concat(last.lines)

\* The line of a station as the file format has it: the ordinal, the six
\* fields between bars, the flag as 1 or 0, in quotes, and a line feed.
EncoderLine(i, s) ==
    <<SD, "[">> \o Digits(i) \o <<"]", ":", " ", QT>>
        \o s.url \o <<BAR>> \o s.name \o <<BAR>> \o s.genre \o <<BAR>> \o s.language \o <<BAR>>
        \o Digits(s.bitrate) \o <<BAR>> \o (IF s.favorite THEN <<"1">> ELSE <<"0">>) \o <<QT, NL>>

\* The station lines of the document are one block of lines, each the line
\* the encoder writes for its station at its position in the list, and the
\* first record-count line, if there is one, carries their number.
Normalised ==
    /\ \A k \in 1..Len(last.idxs) :
          /\ last.idxs[k] = last.idxs[1] + (k - 1)
          /\ last.lines[last.idxs[k] + 1] = EncoderLine(k - 1, DocStations[k])
    /\ CountLines(last.lines) # <<>> =>
          /\ CountOf(CountLines(last.lines)[1]) = Len(DocStations)
          /\ CountMatch(RStripNL(CountLines(last.lines)[1])).old = Digits(Len(DocStations))

\* C7 as claimed: for any parseable file, flipping the favorite flag of one
\* station and writing in_place changes that station's line in its flag only
\* and no other line, and a backup holds the original lines.
C7_OnlyFlagChanges == \A k \in 1..Len(DocStations) : FlagEdit(k) => OnlyFlagOf(k)

\* C7 as amended: the same, for a file whose station lines are one block of
\* lines as the encoder writes them, numbered by position, and whose first
\* record-count line carries the number of stations.
C7_NormalisedFile ==
    \A k \in 1..Len(DocStations) : (FlagEdit(k) /\ Normalised) => OnlyFlagOf(k)

\* The flag of the second of two stations is flipped in a normalised file
\* that has a record-count line.
C7_Witness ==
    /\ FlagEdit(2) /\ Normalised
    /\ CountLines(last.lines) # <<>>
    /\ ReadText(file_path) # last.pre
    /\ OnlyFlagOf(2)

\* ------------------------------------------- C8: the insert via new_slot

\* Blank, or a closing brace: a line of the tail new_slot keeps at the end.
IsTailLine(line) == Strip(line) \in {<<>>, <<"}">>}

\* The lines end in a blank line followed by a closing brace.
EndsBlankBrace(lines) ==
    /\ Len(lines) >= 2
    /\ Strip(lines[Len(lines) - 1]) = <<>>
    /\ Strip(lines[Len(lines)]) = <<"}">>

\* The document ends in a blank line and a closing brace, and the written
\* list is the parsed one with one station appended, written with new_slot.
AppendEdit ==
    /\ Written /\ last.strategy = "new_slot"
    /\ EndsBlankBrace(last.lines)
    /\ Len(last.stations) = Len(DocStations) + 1
    /\ SubSeq(last.stations, 1, Len(DocStations)) = DocStations
    /\ Clean(last.stations[Len(last.stations)])

\* The station lines of the file, all but the last, are the station lines of
\* the document, each on the line it was on.
OriginalsInPlace ==
    LET now == ScanLines(NowLines, 1)
    IN  \A k \in 1..Len(DocStations) :
           /\ k <= Len(now.idxs)
           /\ now.idxs[k] = last.idxs[k]
           /\ NowLines[now.idxs[k] + 1] = last.lines[last.idxs[k] + 1]

\* The first record-count line of the file, if there is one, carries n.
FirstCountIs(n) == CountLines(NowLines) # <<>> => CountOf(CountLines(NowLines)[1]) = n

\* The file ends in a blank line and a closing brace, and after the last
\* station line come a blank line and then nothing but blank lines and braces.
TailAfterStations ==
    LET now == ScanLines(NowLines, 1)
        at == now.idxs[Len(now.idxs)] + 1
    IN  /\ EndsBlankBrace(NowLines)
        /\ at < Len(NowLines) /\ Strip(NowLines[at + 1]) = <<>>
        /\ \A j \in (at + 1)..Len(NowLines) : IsTailLine(NowLines[j])

\* The station lines of the document are one block of encoder lines with
\* only blank lines and braces after it, and before it there is nothing, or
\* one blank line or brace below a line that is neither.
BlockInPlace ==
    LET first == last.idxs[1] + 1
        n == Len(last.idxs)
    IN  /\ \A k \in 1..n :
              /\ last.idxs[k] = last.idxs[1] + (k - 1)
              /\ last.lines[last.idxs[k] + 1] = EncoderLine(k - 1, DocStations[k])
        /\ \A j \in (first + n)..Len(last.lines) : IsTailLine(last.lines[j])
        /\ \/ first = 1
           \/ /\ first >= 3
              /\ IsTailLine(last.lines[first - 1])
              /\ ~IsTailLine(last.lines[first - 2])

MaxWrites == 2

\* The two game files the open page knows.
Games == {"ats", "ets2"}

\* The files the editor starts from: the two longer files, a station line
\* with a blank line and a brace, a station line in another layout above an
\* unterminated count line, and a file without a station.
EditorTexts ==
    {Concat(SampleFile), Concat(<<LineA, LineBlank, LineBrace>>),
     RStripNL(Concat(<<LineN, LineCount>>)), Concat(<<LineBad>>)}

\* What _validate_form returns for the form as the user filled it.
FormStations == {StationX}

\* The elements of sts whose 0-based index is in rows (keep) or is not.
RECURSIVE Rows(_, _, _, _)
Rows(sts, rows, keep, k) ==
    IF k > Len(sts) THEN <<>>
    ELSE (IF ((k - 1) \in rows) = keep THEN <<sts[k]>> ELSE <<>>) \o Rows(sts, rows, keep, k + 1)

SetMin(S) == CHOOSE x \in S : \A y \in S : x <= y

SetMax(S) == CHOOSE x \in S : \A y \in S : x >= y

\* A drop that copies: the dragged rows also stay where they were.
dropMimeData_Copy(sts, src_rows, row) ==
    LET dst == Max(0, Min(row, Len(sts)))
    IN  IF src_rows = {} \/ (SetMin(src_rows) <= dst /\ dst <= SetMax(src_rows) + 1)
        THEN [ok |-> FALSE, stations |-> sts]
        ELSE [ok |-> TRUE,
              stations |-> SubSeq(sts, 1, dst) \o Rows(sts, src_rows, TRUE, 1)
                               \o SubSeq(sts, dst + 1, Len(sts))]

\* StationModel.dropMimeData with drag enabled, a move action and the rows
\* src_rows (in range) in the mime data: [ok, stations], ok the return value.
dropMimeData(sts, src_rows, row) ==
    LET dst == Max(0, Min(row, Len(sts)))
    IN  IF src_rows = {} \/ (SetMin(src_rows) <= dst /\ dst <= SetMax(src_rows) + 1)
        THEN [ok |-> FALSE, stations |-> sts]
        ELSE LET removed_before_dst == Cardinality({r \in src_rows : r < dst})
                 dragged == Rows(sts, src_rows, TRUE, 1)
                 remaining == Rows(sts, src_rows, FALSE, 1)
                 dst_adj == Min(Max(0, dst - removed_before_dst), Len(remaining))
             IN  [ok |-> TRUE,
                  stations |-> SubSeq(remaining, 1, dst_adj) \o dragged
                                   \o SubSeq(remaining, dst_adj + 1, Len(remaining))]

\* The station rows of the table, 0-based.
SourceRows == 0..(Len(stations) - 1)

Init ==
    /\ \E t1 \in EditorTexts :
          \/ /\ data = <<t1, Concat(<<LineBlank, LineB, LineCount>>)>>
             /\ fs = [p \in Games |-> IF p = "ats" THEN File(1) ELSE File(2)]
          \/ /\ data = <<t1>>
             /\ fs = [p \in Games |-> IF p = "ats" THEN File(1) ELSE Absent]
    /\ bak = <<>>
    /\ clock = 0
    /\ file_path = ""
    /\ original_lines = <<>>
    /\ station_line_indexes = <<>>
    /\ stations = <<>>
    /\ pc = "gui"
    /\ page = "open"
    /\ current_edit_source_row = -1
    /\ last = NoCall
    /\ calls = <<>>
    /\ host = NoHost
    /\ temp = {}
    /\ linked = NoLink

\* datetime.now() moves on by a second.
Tick ==
    /\ clock < MaxClock
    /\ clock' = clock + 1
    /\ UNCHANGED <<fs, data, bak, file_path, original_lines, station_line_indexes, stations,
                   pc, page, current_edit_source_row, last, calls, linkVars>>

\* MainWindow.open_file(path), called by OpenPage.try_open: load_file parses
\* first and raises before it assigns anything; try_open catches.
open_file(path) ==
    /\ page = "open"
    /\ IF IsFile(path)
       THEN \E r \in {parse_live_streams(ReadText(path))} :
               IF r.ok
               THEN /\ file_path' = path
                    /\ original_lines' = r.lines
                    /\ station_line_indexes' = r.station_line_indexes
                    /\ stations' = r.stations
                    /\ current_edit_source_row' = -1
                    /\ page' = "editor"
               ELSE UNCHANGED <<file_path, original_lines, station_line_indexes, stations,
                                current_edit_source_row, page>>
       ELSE UNCHANGED <<file_path, original_lines, station_line_indexes, stations,
                        current_edit_source_row, page>>
    /\ UNCHANGED <<fs, data, bak, clock, pc, last, calls, linkVars>>

\* MainWindow.go_open_page
go_open_page ==
    /\ page = "editor"
    /\ page' = "open"
    /\ UNCHANGED <<fs, data, bak, clock, file_path, original_lines, station_line_indexes,
                   stations, pc, current_edit_source_row, last, calls, linkVars>>

\* EditorPage.write_now after a handler has made the model list sts and the
\* edited row cur: write, parse the file again, keep the fresh document, and
\* with reload_ui load the file.  An exception of the write or of the parse
\* is caught at the end, with all that was not yet assigned left as it was.
write_now(strategy_override, reload_ui, sts, cur) ==
    /\ Len(calls) < MaxWrites
    /\ \E list \in {sts} :
          /\ write_live_streams(file_path, original_lines, station_line_indexes, list,
                                strategy_override)
          /\ \E fresh \in {IF last'.err = "" THEN parse_live_streams(data'[fs[file_path].ino])
                             ELSE [ok |-> FALSE]} :
                IF fresh.ok
                THEN /\ original_lines' = fresh.lines
                     /\ station_line_indexes' = fresh.station_line_indexes
                     /\ stations' = IF reload_ui THEN fresh.stations ELSE list
                     /\ current_edit_source_row' = IF reload_ui THEN -1 ELSE cur
                ELSE /\ UNCHANGED <<original_lines, station_line_indexes>>
                     /\ stations' = list
                     /\ current_edit_source_row' = cur
    /\ UNCHANGED <<fs, clock, file_path, pc, page, linkVars>>

\* The editor shows a loaded file.
Editing == page = "editor" /\ file_path # ""

\* EditorPage.on_table_clicked on the favorite column of row src_row
on_table_clicked(src_row) ==
    /\ Editing
    /\ write_now("in_place", FALSE, Toggle(stations, src_row + 1), current_edit_source_row)

\* EditorPage.on_table_clicked on another column: load_station_into_form
load_station_into_form(src_row) ==
    /\ Editing
    /\ current_edit_source_row' = src_row
    /\ UNCHANGED <<fs, data, bak, clock, file_path, original_lines, station_line_indexes,
                   stations, pc, page, last, calls, linkVars>>

\* EditorPage.clear_fields_for_new_station
clear_fields_for_new_station ==
    /\ Editing
    /\ current_edit_source_row' = -1
    /\ UNCHANGED <<fs, data, bak, clock, file_path, original_lines, station_line_indexes,
                   stations, pc, page, last, calls, linkVars>>

\* EditorPage.show_context_menu, add or remove favorite for the rows src_rows
show_context_menu(src_rows, new_val) ==
    /\ Editing
    /\ IF \E r \in src_rows : stations[r + 1].favorite # new_val
       THEN write_now("in_place", FALSE,
                      [k \in 1..Len(stations) |->
                          IF (k - 1) \in src_rows THEN [stations[k] EXCEPT !.favorite = new_val]
                          ELSE stations[k]],
                      current_edit_source_row)
       ELSE UNCHANGED vars

\* EditorPage.delete_source_rows(src_rows), confirmed
delete_source_rows(src_rows) ==
    /\ Editing
    /\ write_now("in_place", TRUE, Rows(stations, src_rows, FALSE, 1),
                 IF current_edit_source_row \in src_rows THEN -1 ELSE current_edit_source_row)

\* EditorPage.save_station with a form that validates to s
save_station(s) ==
    /\ Editing
    /\ IF current_edit_source_row < 0 \/ current_edit_source_row >= Len(stations)
       THEN write_now("new_slot", TRUE, Append(stations, s), Len(stations))
       ELSE write_now("in_place", TRUE,
                      [stations EXCEPT ![current_edit_source_row + 1] = s],
                      current_edit_source_row)

\* A drop of the rows src_rows at row in custom order; when the model takes
\* it, its reordered signal runs EditorPage.on_model_reordered.
on_model_reordered(src_rows, row) ==
    /\ Editing
    /\ \E d \in {dropMimeData(stations, src_rows, row)} :
           IF d.ok
           THEN write_now("in_place", TRUE, d.stations, current_edit_source_row)
           ELSE UNCHANGED vars

\* OpenPage.copy_stations(src_game, dst_game), confirmed: both files are
\* parsed, then the destination is written in_place with the source's list.
copy_stations(src_path, dst_path) ==
    /\ page = "open"
    /\ src_path # dst_path
    /\ IF IsFile(src_path) /\ IsFile(dst_path)
       THEN \E src \in {parse_live_streams(ReadText(src_path))},
               dst \in {parse_live_streams(ReadText(dst_path))} :
               IF src.ok /\ dst.ok
               THEN /\ Len(calls) < MaxWrites
                    /\ write_live_streams(dst_path, dst.lines, dst.station_line_indexes,
                                          src.stations, "in_place")
                    /\ UNCHANGED <<fs, clock, file_path, original_lines,
                                   station_line_indexes, stations, pc, page,
                                   current_edit_source_row, linkVars>>
               ELSE UNCHANGED vars
       ELSE UNCHANGED vars

Next ==
    \/ Tick
    \/ \E path \in Games : open_file(path)
    \/ go_open_page
    \/ \E src_row \in SourceRows : on_table_clicked(src_row)
    \/ \E src_row \in SourceRows : load_station_into_form(src_row)
    \/ clear_fields_for_new_station
    \/ \E src_rows \in SUBSET SourceRows \ {{}}, new_val \in BOOLEAN :
          show_context_menu(src_rows, new_val)
    \/ \E src_rows \in SUBSET SourceRows \ {{}} : delete_source_rows(src_rows)
    \/ \E s \in FormStations : save_station(s)
    \/ \E src_rows \in SUBSET SourceRows \ {{}}, row \in 0..Len(stations) :
          on_model_reordered(src_rows, row)
    \/ \E src_path \in Games, dst_path \in Games : copy_stations(src_path, dst_path)

Spec == Init /\ [][Next]_vars

\* ------------------------------------------------- C2: what the backup holds

\* C2: after every call of write_live_streams, in any run of the editor and
\* the open page, the backup the call made holds the text the target file
\* had immediately before the call.
C2_BackupHoldsPriorContent ==
    last # NoCall => (last.key \in DOMAIN bak /\ bak[last.key] = last.pre)

\* ------------------------------------------------ C5: backups accumulate

\* C5: the successful calls of write_live_streams so far have made one
\* backup each, under names that differ from call to call, and every one of
\* these backups still holds the text it was made with.
C5_BackupsAccumulate ==
    \A i \in 1..Len(calls) : calls[i].err = "" =>
        /\ calls[i].key \in DOMAIN bak
        /\ bak[calls[i].key] = calls[i].text
        /\ \A j \in 1..Len(calls) : (j # i /\ calls[j].err = "") => calls[j].key # calls[i].key

\* ----------------------------------------------------- linking two files

\* dest.with_name(dest.name + ".backup")
BackupName(dest) ==
    CASE dest = "dest" -> "dest.backup"
      [] dest = "src" -> "src.backup"

\* dest.with_name(dest.name + ".backup_<ts>") for the second ts
BackupTsName(dest, ts) ==
    CASE dest = "dest" ->
            <<"dest.backup_0", "dest.backup_1", "dest.backup_2", "dest.backup_3">>[ts + 1]
      [] dest = "src" ->
            <<"src.backup_0", "src.backup_1", "src.backup_2", "src.backup_3">>[ts + 1]

\* dest_path.parent
Parent(dest) ==
    CASE dest = "dest" -> "destdir"
      [] dest = "src" -> "srcdir"

\* The destinations link is called with: the file of the other game, and
\* the source itself (both games associated with one file).
LinkDests == {"dest", "src"}

\* The paths of the linking model: the source file, the destination, and
\* for each of the two its folder and the names a backup of it can get.
LinkPaths ==
    {"src", "dest"}
        \cup {Parent(d) : d \in LinkDests} \cup {BackupName(d) : d \in LinkDests}
        \cup {BackupTsName(d, ts) : d \in LinkDests, ts \in 0..MaxClock}

\* The texts of the four files there can be at the start: the source, the
\* destination, and two older backups of the destination.
LinkTexts ==
    <<Concat(<<LineA, LineBlank, LineBrace>>), Concat(<<LineB, LineCount>>),
      Concat(<<LineBad>>), Concat(<<LineN>>)>>

\* _path_exists_any(p) in the file system f
path_exists_any(f, p) == f[p].k # "absent"

\* _remove_path_any(p) in f: a link is unlinked, a directory removed with
\* all it holds, a file unlinked.
remove_path_any(f, p) == [f EXCEPT ![p] = Absent]

\* os.link gone wrong: dest names another file than src does.
os_link_OtherFile(f, src, dest) == [f EXCEPT ![dest] = File(2)]

\* os.link(src, dest) that succeeds: dest names the file src names.
os_link(f, src, dest) == [f EXCEPT ![dest] = f[src]]

\* A destination handling that removes whatever is at dest, a file too.
safe_backup_existing_dest_Remove(f, dest, ts) ==
    [raised |-> FALSE, fs |-> remove_path_any(f, dest), backup |-> ""]

\* _safe_backup_existing_dest(dest) in f at second ts: [raised, fs, backup].
\* Path.rename raises on Windows when the new name is taken.
safe_backup_existing_dest(f, dest, ts) ==
    IF ~path_exists_any(f, dest)
    THEN [raised |-> FALSE, fs |-> f, backup |-> ""]
    ELSE IF ResolveIn(f, dest).k = "dir" \/ f[dest].k = "symlink"
    THEN [raised |-> FALSE, fs |-> remove_path_any(f, dest), backup |-> ""]
    ELSE LET backup == IF path_exists_any(f, BackupName(dest))
                       THEN BackupTsName(dest, ts) ELSE BackupName(dest)
         IN  IF path_exists_any(f, backup)
             THEN [raised |-> TRUE, fs |-> f, backup |-> ""]
             ELSE [raised |-> FALSE,
                   fs |-> [f EXCEPT ![backup] = f[dest], ![dest] = Absent],
                   backup |-> backup]

\* The record of a call of link, for the properties.
LinkCall(status, via, backup, dest, tried, elevated) ==
    [status |-> status, via |-> via, backup |-> backup, prior |-> fs[dest],
     prior_text |-> IF fs[dest].k = "file" THEN data[fs[dest].ino] ELSE <<>>,
     hardlink_tried |-> tried, elevated |-> elevated, dest |-> dest]

\* What can go wrong before the elevated script has run: nothing, writing the
\* script file raises, starting powershell raises.
Faults == {"none", "write", "launch"}

\* The ways the elevated step can go: after a fault nothing else happens, and
\* mklink makes no link when the script did not run.
ElevatedOutcomes ==
    {o \in [fault : Faults, ran : BOOLEAN, made : BOOLEAN, swept : BOOLEAN] :
        /\ o.fault # "none" => (~o.ran /\ ~o.made /\ ~o.swept)
        /\ ~o.ran => ~o.made}

\* _mklink_symlink_admin(dest, src) from the file system f, and the end of
\* link_live_streams_force_admin_symlink.  fault: see Faults; ran: the
\* elevated script ran (the user agreed) and wrote its log; made: mklink made
\* the link; swept: the script file could be deleted.
mklink_symlink_admin(f, src_path, dest_path, backup, tried, fault, ran, made, swept) ==
    IF fault # "none"
    THEN /\ temp' = temp \cup (IF fault = "launch" THEN {"cmd"} ELSE {})
         /\ fs' = f
         /\ linked' = LinkCall("OSError", "", "", dest_path, tried, TRUE)
    ELSE /\ temp' = temp \cup (IF ran THEN {"log"} ELSE {})
                        \cup (IF swept THEN {} ELSE {"cmd"})
         /\ IF ran /\ made
            THEN /\ fs' = [f EXCEPT ![dest_path] = Symlink(src_path)]
                 /\ linked' = LinkCall("ok", "symlink", backup, dest_path, tried, TRUE)
            ELSE /\ fs' = f
                 /\ linked' = LinkCall("LinkFailed", "", "", dest_path, tried, TRUE)

\* src_path.drive and dest_path.drive and src_path.drive.lower() ==
\* dest_path.drive.lower(): a path has the drive it has.
drives_equal(src_path, dest_path) == src_path = dest_path \/ host.same_drive

\* The try block of link with the hardlink left out: the elevated step is
\* taken at once.
try_hardlink_Never(same_drive, hard) == "skipped"

\* The try block of link: os.link is called only when both paths have the
\* same drive; an exception it raises is swallowed.  hard: os.link succeeds
\* (it cannot when nothing is at src).
try_hardlink(same_drive, hard) ==
    IF same_drive THEN (IF hard THEN "done" ELSE "failed") ELSE "skipped"

\* A check of the source that lets everything pass.
src_is_file_Any(p) == TRUE

\* src_path.exists() and src_path.is_file()
src_is_file(p) == Resolve(p).k # "absent" /\ Resolve(p).k = "file"

\* link_live_streams_force_admin_symlink(src_path, dest_path).  hard: os.link
\* succeeds when it is tried; fault, ran, made, swept: see
\* mklink_symlink_admin.
link(src_path, dest_path, hard, fault, ran, made, swept) ==
    /\ IF ~host.windows
       THEN /\ linked' = LinkCall("UnsupportedPlatform", "", "", dest_path, FALSE, FALSE)
            /\ UNCHANGED <<fs, temp>>
       ELSE IF ~src_is_file(src_path)
       THEN /\ linked' = LinkCall("SourceMissing", "", "", dest_path, FALSE, FALSE)
            /\ UNCHANGED <<fs, temp>>
       ELSE \E made_parent \in {[fs EXCEPT ![Parent(dest_path)] = Dir]} :
            \E b \in {safe_backup_existing_dest(made_parent, dest_path, clock)} :
               IF b.raised
               THEN /\ fs' = made_parent
                    /\ linked' = LinkCall("FileExistsError", "", "", dest_path, FALSE, FALSE)
                    /\ UNCHANGED temp
               ELSE \E f \in {IF path_exists_any(b.fs, dest_path)
                              THEN remove_path_any(b.fs, dest_path) ELSE b.fs} :
                    \E h \in {try_hardlink(drives_equal(src_path, dest_path),
                                            hard /\ f[src_path].k = "file")} :
                       IF h = "done"
                       THEN /\ fs' = os_link(f, src_path, dest_path)
                            /\ linked' = LinkCall("ok", "hardlink", b.backup, dest_path,
                                                  TRUE, FALSE)
                            /\ UNCHANGED temp
                       ELSE mklink_symlink_admin(f, src_path, dest_path, b.backup,
                                                 h = "failed", fault, ran, made, swept)
    /\ UNCHANGED <<data, bak, clock, file_path, original_lines, station_line_indexes,
                   stations, pc, page, current_edit_source_row, last, calls, host>>

\* A program parses the file at path and writes it as the editor does: with
\* one flag flipped in_place, or one station appended with new_slot.
LinkWrite(path) ==
    /\ Len(calls) < MaxWrites
    /\ IsFile(path)
    /\ \E r \in {parse_live_streams(ReadText(path))} :
          /\ r.ok
          /\ \/ write_live_streams(path, r.lines, r.station_line_indexes,
                                   Toggle(r.stations, 1), "in_place")
             \/ write_live_streams(path, r.lines, r.station_line_indexes,
                                   Append(r.stations, StationX), "new_slot")
    /\ UNCHANGED <<fs, clock, file_path, original_lines, station_line_indexes, stations,
                   pc, page, current_edit_source_row, linkVars>>

\* What dest is at the start: nothing, a file of its own, a second name of
\* the source file (on the same drive), a link to src (dangling if src is no
\* file), a directory.
InitLink ==
    /\ host \in [windows : BOOLEAN, same_drive : BOOLEAN]
    /\ \E s \in {File(1), Absent, Dir},
          d \in {Absent, File(2), File(1), Symlink("src"), Dir},
          b \in {Absent, File(3)}, bt \in {Absent, File(4)} :
          /\ d = File(1) => (s = File(1) /\ host.same_drive)
          /\ fs = [p \in LinkPaths |->
                     CASE p = "src" -> s
                       [] p = "dest" -> d
                       [] p = Parent("dest") ->
                             IF d = Absent /\ b = Absent /\ bt = Absent THEN Absent ELSE Dir
                       [] p = BackupName("dest") -> b
                       [] p = BackupTsName("dest", 0) -> bt
                       [] p = Parent("src") -> IF s = Absent THEN Absent ELSE Dir
                       [] OTHER -> Absent]
    /\ data = LinkTexts
    /\ bak = <<>>
    /\ clock = 0
    /\ file_path = ""
    /\ original_lines = <<>>
    /\ station_line_indexes = <<>>
    /\ stations = <<>>
    /\ pc = "link"
    /\ page = "open"
    /\ current_edit_source_row = -1
    /\ last = NoCall
    /\ calls = <<>>
    /\ temp = {}
    /\ linked = NoLink

NextLink ==
    \/ Tick
    \/ \E hard \in BOOLEAN, o \in ElevatedOutcomes :
          link("src", "dest", hard, o.fault, o.ran, o.made, o.swept)
    \/ \E path \in {"src", "dest"} : LinkWrite(path)

SpecLink == InitLink /\ [][NextLink]_vars

\* ------------------------------------- C9: a regular file at the destination

\* The last link succeeded and dest was a regular file before it.
LinkedOverFile == linked.status = "ok" /\ linked.prior.k = "file"

\* C9: after a link that succeeded with a regular file at dest, a backup
\* (dest.backup or a timestamped one) holds what dest held before, whatever
\* was written to src or dest since, and dest leads to the file src names.
C9_BackupKeepsPriorContent ==
    LinkedOverFile =>
        /\ linked.backup \in {BackupName("dest")}
                                \cup {BackupTsName("dest", ts) : ts \in 0..MaxClock}
        /\ fs[linked.backup].k = "file"
        /\ data[fs[linked.backup].ino] = linked.prior_text
        /\ IsFile("src") /\ IsFile("dest")
        /\ Resolve("dest").ino = Resolve("src").ino

\* ------------------------------------------ C10: the hardlink and writes

\* The last link made a hardlink where dest was absent.
HardlinkedFresh ==
    linked.status = "ok" /\ linked.via = "hardlink" /\ linked.prior.k = "absent"

\* C10: after a link that succeeded by hardlink with dest absent before, no
\* backup was returned, and whatever is written to src or dest afterwards,
\* reading src and reading dest give the same text.
C10_HardlinkShared ==
    HardlinkedFresh =>
        /\ linked.backup = ""
        /\ IsFile("src") /\ IsFile("dest")
        /\ ReadText("src") = ReadText("dest")

\* After such a link, one write to dest and one to src have changed the text
\* both paths read.
C10_Witness ==
    /\ HardlinkedFresh
    /\ Len(calls) = 2 /\ calls[1].path = "dest" /\ calls[2].path = "src"
    /\ calls[1].err = "" /\ calls[2].err = ""
    /\ ReadText("src") = ReadText("dest")
    /\ ReadText("dest") # LinkTexts[1]
    /\ ReadText("dest") # calls[2].text

\* ------------------------------------- C11: what link does with the destination

\* A step of link_live_streams_force_admin_symlink("src", "dest").
LinkStep ==
    \E hard \in BOOLEAN, o \in ElevatedOutcomes :
        link("src", "dest", hard, o.fault, o.ran, o.made, o.swept)

\* A step of link that got past the two checks at its start.
LinkStepPastChecks == LinkStep /\ host.windows /\ IsFile("src")

\* The names a backup of dest can have.
BackupNames == {BackupName("dest")} \cup {BackupTsName("dest", ts) : ts \in 0..MaxClock}

\* The name the spec gives the backup of dest in this state: dest.backup, or
\* dest.backup_<timestamp> when dest.backup is taken.
ExpectedBackup ==
    IF fs[BackupName("dest")].k = "absent"
    THEN BackupName("dest") ELSE BackupTsName("dest", clock)

\* What dest can be once the old object is gone: nothing, or the new link.
GoneOrLinked(e) == e \in {Absent, fs["src"], Symlink("src")}

\* What C11 says of one call of link, from the state before it to the state
\* after it.
C11_Handled ==
    /\ fs["dest"].k = "absent" =>
          /\ linked'.backup = ""
          /\ \A p \in BackupNames : fs'[p] = fs[p]
    /\ fs["dest"].k \in {"symlink", "dir"} =>
          /\ linked'.backup = ""
          /\ \A p \in BackupNames : fs'[p] = fs[p]
          /\ GoneOrLinked(fs'["dest"])
    /\ fs["dest"].k = "file" =>
          /\ fs'[ExpectedBackup] = fs["dest"]
          /\ \A p \in BackupNames \ {ExpectedBackup} : fs'[p] = fs[p]
          /\ linked'.status = "ok" => linked'.backup = ExpectedBackup
    /\ linked'.status = "ok" => (linked'.backup # "" <=> fs["dest"].k = "file")

\* C11 as stated: in every call of link that reaches the destination handling,
\* an absent dest leaves every backup name alone and gives no backup; a
\* symbolic link or a directory at dest is removed and gives no backup; a
\* regular file at dest is renamed to dest.backup, or to dest.backup_<ts> when
\* dest.backup exists; and a call that returns returns a backup path exactly
\* when dest was a regular file.
C11_DestinationHandling == [][LinkStepPastChecks => C11_Handled]_vars

\* The same for the calls in which the name the backup gets is free.
C11_WhenBackupNameFree ==
    [][(LinkStepPastChecks /\ fs[ExpectedBackup].k = "absent") => C11_Handled]_vars

\* ------------------------------------- C12: hardlink first, then elevation

\* The last call of link got as far as the two ways of linking.
ReachedLinking == linked.status \in {"ok", "LinkFailed", "OSError"}

\* C12: in a call of link that reaches the linking, the hardlink is tried
\* exactly when both paths are on one drive (as one path is) and always before the elevated
\* step; the elevated step runs exactly when the hardlink was not tried or
\* failed; a failed hardlink is never the error of link, which fails only
\* in the elevated step; a hardlink that succeeds ends the call with no
\* elevation.
C12_HardlinkBeforeElevation ==
    ReachedLinking =>
        /\ linked.hardlink_tried <=> (host.same_drive \/ linked.dest = "src")
        /\ linked.elevated <=> (~linked.hardlink_tried \/ linked.via # "hardlink")
        /\ linked.via = "hardlink" => (linked.status = "ok" /\ ~linked.elevated)
        /\ linked.status \in {"LinkFailed", "OSError"} => linked.elevated
        /\ (linked.status = "ok" /\ linked.elevated) => linked.via = "symlink"

\* The hardlink was tried and failed, and the elevated step made the link.
C12_Witness ==
    /\ linked.status = "ok" /\ linked.via = "symlink"
    /\ linked.hardlink_tried /\ linked.elevated
    /\ fs["dest"] = Symlink("src")

\* ------------------------------------- C13: the script and its log

\* C13 as stated: whatever way the elevated step ends, neither the script
\* file nor the log file it made is left in the temp directory.
C13_NoTempFileRemains == temp = {}

\* ------------------------------------- C14: how parse ends

\* The line has the layout of a station line and its payload has five
\* delimiters, that is six fields.
IsStationLine(line) ==
    With(StreamMatch(RStripNL(line)), LAMBDA m :
        m.ok /\ Cardinality({k \in 1..Len(m.payload) : m.payload[k] = BAR}) = 5)

\* No line of the text is a station line.
NoStationLine(text) ==
    With(SplitLines(text), LAMBDA lines :
        \A k \in 1..Len(lines) : ~IsStationLine(lines[k]))

\* C14: parse(path) ends with FileNotFound when nothing is at path, with
\* NoStationsFound exactly when the file is there and none of its lines is a
\* station line, and succeeds otherwise; it leaves the file, and every other
\* file, as it was.
C14_ParseOutcome ==
    [][pc = "start" =>
         /\ fs' = fs /\ data' = data /\ bak' = bak
         /\ pc' = IF ~IsFile(file_path) THEN "FileNotFound"
                  ELSE IF NoStationLine(ReadText(file_path)) THEN "NoStationsFound"
                  ELSE "parsed"
    ]_vars

\* parse has ended with NoStationsFound on a file that has a stream_data[n]
\* line, whose payload does not have six fields.
C14_Witness ==
    /\ pc = "NoStationsFound"
    /\ \E k \in 1..Len(NowLines) :
          /\ StreamMatch(RStripNL(NowLines[k])).ok
          /\ ~IsStationLine(NowLines[k])

\* ------------------------------------- C15: the checks at the start of link

\* The call of link changes no file, link or directory, and no temp file.
NothingTouched == fs' = fs /\ data' = data /\ bak' = bak /\ temp' = temp

\* C15: on a platform other than Windows link fails with
\* UnsupportedPlatform, whatever src and dest are; on Windows with src absent
\* or not a regular file it fails with SourceMissing; in both cases dest, its
\* folder, the backups and everything else stay exactly as they were.
C15_Preconditions ==
    [][LinkStep =>
         /\ ~host.windows =>
               (linked'.status = "UnsupportedPlatform" /\ NothingTouched)
         /\ (host.windows /\ fs["src"].k # "file") =>
               (linked'.status = "SourceMissing" /\ NothingTouched)
    ]_vars

\* link has failed with SourceMissing for a directory at src, with a regular
\* file at dest and a backup of an earlier link beside it, all still there.
C15_Witness ==
    /\ linked.status = "SourceMissing"
    /\ host.windows
    /\ fs["src"] = Dir
    /\ fs["dest"] = File(2)
    /\ fs[BackupName("dest")] = File(3)

\* ------------------------------------- write_live_streams, step by step

\* Most lines of a file in the step-by-step specification.
MaxStepLines == 3

\* The texts of its files.
StepTexts ==
    {t \in Texts : Len(SplitLines(t)) <= MaxStepLines}
        \cup {Concat(SampleFile), Concat(SampleSpaced)}

\* The station lists its caller passes: the parsed list, one flag flipped,
\* all stations removed, a station appended, a station with the delimiter
\* in its name appended.
StepEdits(sts) ==
    {sts, <<>>, Toggle(sts, 1), Append(sts, StationX), Append(sts, StationBar)}

\* The station_line_indexes its caller passes with n lines: the parsed ones,
\* none, one past the last line.
IndexInputs(idxs, n) == {idxs, <<>>, <<n>>}

InitSteps ==
    /\ InitWrite
    /\ fs["ats"] = File(1) => data[1] \in StepTexts

\* write_live_streams up to the backup: the backup folder is made and
\* "".join(original_lines) is written to the backup file.
StepBackup ==
    /\ pc = "parsed"
    /\ \E L \in StepEdits(stations), strategy \in Strategies,
          idxs \in IndexInputs(station_line_indexes, Len(original_lines)),
          key \in {BackupKey(file_path, clock)} :
          /\ bak' = WriteBackup(bak, key, Concat(original_lines))
          /\ last' = [path |-> file_path, strategy |-> strategy, err |-> "none",
                      stations |-> L, lines |-> original_lines, idxs |-> idxs,
                      pre |-> ReadText(file_path), preBak |-> bak, key |-> key]
          /\ stations' = L
    /\ pc' = "backed_up"
    /\ UNCHANGED <<fs, data, clock, file_path, original_lines, station_line_indexes, page,
                   current_edit_source_row, calls, linkVars>>

\* A build step that goes on to the target after an exception.
StepBuild_IgnoreError ==
    /\ pc = "backed_up"
    /\ \E r \in {WriteResult(last.lines, last.idxs, last.stations, last.strategy)} :
          /\ last' = [last EXCEPT !.err = r.err]
          /\ pc' = "built"
    /\ UNCHANGED <<fs, data, bak, clock, file_path, original_lines, station_line_indexes,
                   stations, page, current_edit_source_row, calls, linkVars>>

\* write_live_streams from the encoding of the stations to the count line:
\* the new lines are built in memory, or an exception ends the call.
StepBuild ==
    /\ pc = "backed_up"
    /\ \E r \in {WriteResult(last.lines, last.idxs, last.stations, last.strategy)} :
          /\ last' = [last EXCEPT !.err = r.err]
          /\ pc' = IF r.err = "" THEN "built" ELSE "raised"
    /\ UNCHANGED <<fs, data, bak, clock, file_path, original_lines, station_line_indexes,
                   stations, page, current_edit_source_row, calls, linkVars>>

\* The last statement of write_live_streams: p.write_text("".join(lines)).
StepTarget ==
    /\ pc = "built"
    /\ \E r \in {WriteResult(last.lines, last.idxs, last.stations, last.strategy)} :
          data' = WriteText(data, file_path, r.text)
    /\ pc' = "written"
    /\ UNCHANGED <<fs, bak, clock, file_path, original_lines, station_line_indexes,
                   stations, page, current_edit_source_row, last, calls, linkVars>>

NextSteps == ClientParse \/ StepBackup \/ StepBuild \/ StepTarget

SpecSteps == InitSteps /\ [][NextSteps]_vars

\* ------------------------------------- C16: the order of the steps of write

\* The backup of the running or finished call holds the lines passed to it.
BackupWritten == last.key \in DOMAIN bak /\ bak[last.key] = Concat(last.lines)

\* C16: from the moment write has made its backup, the backup holds the
\* document passed to the call; the target has its old content in every
\* state before the last step and after a call that an exception ended
\* (delimiter in a field, no index, index outside the lines); and the only
\* step that changes the target is the last one, taken with the backup
\* written and once per call.
C16_WriteOrdering ==
    /\ [](pc \in {"backed_up", "built", "raised", "written"} => BackupWritten)
    /\ [](pc \in {"parsed", "backed_up", "built", "raised"} =>
             /\ IsFile(file_path)
             /\ last # NoCall => ReadText(file_path) = last.pre)
    /\ [](pc = "written" => last.err = "")
    /\ [][data' # data => (pc = "built" /\ pc' = "written" /\ BackupWritten)]_vars
    /\ [][pc = "written" => UNCHANGED vars]_vars

\* A call that was given an index outside the lines has ended with the
\* exception: its backup is there and the target has its old content.
C16_Witness ==
    /\ pc = "raised" /\ last.err = "index"
    /\ last.idxs = <<Len(last.lines)>>
    /\ BackupWritten
    /\ ReadText(file_path) = last.pre

\* ------------------------------------- C17: the editor's document after a write

\* The document the editor holds is what parsing the open file gives now.
HeldIsParsed ==
    \E r \in {parse_live_streams(ReadText(file_path))} :
        /\ r.ok
        /\ original_lines = r.lines
        /\ station_line_indexes = r.station_line_indexes

\* C17 as stated: once write_now has returned, whatever the editor did in
\* between, the original_lines and station_line_indexes it holds are those of
\* the file as it is now.
C17_EditorReanchored ==
    (Editing /\ last # NoCall /\ last.path = file_path) => HeldIsParsed

\* ------------------------------------- C18: a regular file at dest is not lost

\* After the step a regular file at path p holds the text t.
HoldsAfter(p, t) == fs'[p].k = "file" /\ data'[fs'[p].ino] = t

\* C18: when dest is a regular file and link is called, then however the call
\* ends, dest or one of the backup names beside it is afterwards a regular
\* file with the content dest had, and every backup that was there before is
\* still there with its content.
C18_DestinationNotLost ==
    [][(LinkStep /\ fs["dest"].k = "file") =>
         /\ \E p \in {"dest"} \cup BackupNames : HoldsAfter(p, data[fs["dest"].ino])
         /\ \A p \in BackupNames :
               fs[p].k = "file" => (fs'[p] = fs[p] /\ HoldsAfter(p, data[fs[p].ino]))
    ]_vars

\* link has failed in the elevated step with a regular file at dest and
\* dest.backup taken: dest is gone, its content is in the timestamped backup,
\* and the older backup is as it was.
C18_Witness ==
    /\ linked.status = "LinkFailed"
    /\ linked.prior = File(2)
    /\ fs["dest"] = Absent
    /\ fs[BackupTsName("dest", 0)] = File(2) /\ data[2] = linked.prior_text
    /\ fs[BackupName("dest")] = File(3) /\ data[3] = LinkTexts[3]

\* ------------------------------------- C19: the document parse returns

\* The 0-based indexes in idxs, as a set.
IndexSet(idxs) == {idxs[k] : k \in 1..Len(idxs)}

\* C19: when parse has succeeded, the lines are the lines of the file; the
\* indexes are strictly ascending and inside the lines; there are as many
\* indexes as stations, at least one; the k-th station is what the line at
\* the k-th index decodes to; no other line is a station line; and every
\* station, encoded and decoded again, is the same station.
C19_ParsedDocument ==
    pc = "parsed" =>
        /\ original_lines = SplitLines(ReadText(file_path))
        /\ Len(station_line_indexes) = Len(stations)
        /\ Len(stations) >= 1
        /\ \A k \in 1..Len(station_line_indexes) :
              /\ station_line_indexes[k] \in 0..(Len(original_lines) - 1)
              /\ k > 1 => station_line_indexes[k - 1] < station_line_indexes[k]
              /\ IsStationLine(original_lines[station_line_indexes[k] + 1])
              /\ DecodeLine(original_lines[station_line_indexes[k] + 1]).station = stations[k]
        /\ \A j \in 0..(Len(original_lines) - 1) :
              j \notin IndexSet(station_line_indexes) => ~IsStationLine(original_lines[j + 1])
        /\ \A k \in 1..Len(stations) :
              \E d \in {DecodeLine(station_to_line(k - 1, stations[k]))} :
                  d.ok /\ d.station = stations[k]

\* parse has succeeded on a file whose two station lines are not neighbours,
\* the second one in a layout the encoder does not write.
C19_Witness ==
    /\ pc = "parsed"
    /\ station_line_indexes = <<0, 2>>
    /\ original_lines[1] = LineA /\ original_lines[3] = LineN
    /\ ~IsStationLine(original_lines[2])
    /\ station_to_line(1, stations[2]) # LineN

\* ------------------------------------- C20: where in_place puts the stations

\* A write with in_place of a list that is not empty has succeeded.
WrittenInPlace == Written /\ last.strategy = "in_place" /\ last.stations # <<>>

\* The station lines of the written file are the encoder's lines for the
\* list, one after the other from the 0-based line index m, and no other
\* line of the file is a station line.
BlockAt(m) ==
    \E enc \in {EncodeAll(last.stations)}, now \in {NowLines} :
        /\ Len(now) >= m + Len(enc)
        /\ \A k \in 1..Len(enc) : now[m + k] = enc[k]
        /\ \A j \in 1..Len(now) :
              IsStationLine(now[j]) => j \in (m + 1)..(m + Len(enc))

\* The clamp max(0, min(first, len(lines))) leaves first = m as it is: m is
\* at most the number of lines left once the station lines are removed.
ClampIdle(m) == 0 <= m /\ m <= Len(last.lines) - Len(last.idxs)

\* No text field of the stations holds a line break.
NoLineBreak(sts) ==
    \A k \in 1..Len(sts) :
        \A f \in {sts[k].url, sts[k].name, sts[k].genre, sts[k].language} :
            \A c \in 1..Len(f) : f[c] # NL

\* The 1-based number of the first record-count line of lines, 0 if none.
FirstCountAt(lines) ==
    IF \E j \in 1..Len(lines) : CountMatch(RStripNL(lines[j])).ok
    THEN CHOOSE j \in 1..Len(lines) :
            /\ CountMatch(RStripNL(lines[j])).ok
            /\ \A i \in 1..(j - 1) : ~CountMatch(RStripNL(lines[i])).ok
    ELSE 0

\* C20 as stated: after an in_place write of a non-empty list the station
\* lines are one block that starts at the smallest old station index, the
\* lines before that index are exactly the old ones, and the clamp does not
\* move the index.
C20_BlockAtFirstIndex ==
    WrittenInPlace =>
        \E m \in {last.idxs[1]}, now \in {NowLines} :
            /\ BlockAt(m)
            /\ \A j \in 1..m : now[j] = last.lines[j]
            /\ ClampIdle(m)

\* C20: after an in_place write of a non-empty list without a line break in
\* a field, the station lines are one block that starts at the smallest old
\* station index, also when the old station lines were apart; the lines
\* before that index are the old ones, but that the first record-count line
\* of the file, when it is among them, carries the new count; and the clamp
\* does not move the index.
C20_BlockAtFirstIndexCountUpdated ==
    (WrittenInPlace /\ NoLineBreak(last.stations)) =>
        \E m \in {last.idxs[1]}, now \in {NowLines} :
            /\ BlockAt(m)
            /\ \A j \in 1..m :
                  \/ now[j] = last.lines[j]
                  \/ /\ j = FirstCountAt(last.lines)
                     /\ SameButCount(now[j], last.lines[j])
                     /\ CountOf(now[j]) = Len(last.stations)
            /\ ClampIdle(m)

\* An in_place write of a file whose two station lines were apart, with a
\* count line above them: the block starts where the first one was, the
\* line that stood between them comes after it, the count line has changed.
C20_Witness ==
    /\ WrittenInPlace /\ NoLineBreak(last.stations)
    /\ Len(last.stations) = 3
    /\ last.idxs = <<1, 3>>
    /\ FirstCountAt(last.lines) = 1
    /\ NowLines[1] # last.lines[1]
    /\ BlockAt(1)
    /\ NowLines[5] = last.lines[3]

\* ------------------------------------- C21: the layout new_slot leaves

\* A write with new_slot has succeeded.
WrittenNewSlot == Written /\ last.strategy = "new_slot"

\* The 1-based numbers of the station lines of lines.
StationLineSet(lines) == {j \in 1..Len(lines) : IsStationLine(lines[j])}

\* What C21 says of the lines of a file with station lines at the numbers S.
SlotLayout(now, S) ==
    \E lo \in {SetMin(S)}, hi \in {SetMax(S)} :
        /\ \A j \in (hi + 1)..Len(now) : IsTailLine(now[j])
        /\ S = lo..hi
        /\ lo > 1 => Strip(now[lo - 1]) = <<>>
        /\ hi < Len(now) => Strip(now[hi + 1]) # <<"}">>

\* C21 as stated: after every new_slot write that leaves station lines in
\* the file, every line below the last station line is blank or a closing
\* brace, the station lines are one block, the line above the block, if
\* there is one, is blank, and no closing brace comes directly below the
\* block: a blank line stands between them.
C21_NewSlotLayout ==
    WrittenNewSlot =>
        \E now \in {NowLines} :
            StationLineSet(now) # {} => SlotLayout(now, StationLineSet(now))

\* The same when no field of the list holds a line break and the last line
\* of the document has its terminator.
C21_WhenTerminated ==
    (/\ WrittenNewSlot
     /\ NoLineBreak(last.stations)
     /\ \A k \in 1..Len(last.lines) : Terminator(last.lines[k]) # <<>>) =>
        \E now \in {NowLines} :
            StationLineSet(now) # {} => SlotLayout(now, StationLineSet(now))

\* The same when only the line break in a field is ruled out.
C21_WhenNoLineBreak ==
    (WrittenNewSlot /\ NoLineBreak(last.stations)) =>
        \E now \in {NowLines} :
            StationLineSet(now) # {} => SlotLayout(now, StationLineSet(now))

\* ------------------------------------- C22: the ordinals after a write

\* The n of a line that begins stream_data[n].
Ordinal(line) ==
    With(RStripNL(line), LAMBDA t :
    With(SkipWS(t, 1) + 2, LAMBDA d0 :
        IntOrZero(SubSeq(t, d0, SkipDigits(t, d0) - 1))))

DiskIsList ==
    \E r \in {parse_live_streams(ReadText(file_path))} : r.ok /\ r.stations = stations

\* C23 as stated: whenever the editor has a file loaded, whatever was
\* toggled, inserted, updated, deleted (all rows too) or dragged, parsing the
\* file succeeds and gives the editor's list.
C23_DiskMatchesEditor == Editing => DiskIsList

\* C23: whenever the editor has a file loaded and its list is not empty,
\* parsing the file succeeds and gives the editor's list; when its list is
\* empty, after all rows were deleted, the file has no station line (and
\* parsing it fails with NoStationsFound).
C23_DiskMatchesNonEmptyList ==
    Editing =>
        IF stations # <<>>
        THEN DiskIsList
        ELSE NoStationLine(ReadText(file_path))
                /\ ~parse_live_streams(ReadText(file_path)).ok

\* All rows were deleted and then a station was added with the form: the
\* file parses to that one station.
C23_Witness ==
    /\ Editing
    /\ Len(calls) = 2 /\ calls[1].err = "" /\ calls[2].err = ""
    /\ calls[1].path = file_path /\ calls[2].path = file_path
    /\ calls[2].text = calls[1].text
    /\ stations = <<StationX>>
    /\ DiskIsList

\* ------------------------------------- C24: link and the source file

\* A step of link_live_streams_force_admin_symlink("src", d) for one of the
\* destinations, src itself included.
LinkAnyStep ==
    \E dest \in LinkDests, hard \in BOOLEAN, o \in ElevatedOutcomes :
        link("src", dest, hard, o.fault, o.ran, o.made, o.swept)

\* Calls of link with either destination, one after the other.
NextLinkAny == Tick \/ LinkAnyStep

SpecLinkAny == InitLink /\ [][NextLinkAny]_vars

\* After the step src leads to a regular file with the text t.
SourceHoldsAfter(t) ==
    \E e \in {ResolveIn(fs', "src")} : e.k = "file" /\ data'[e.ino] = t

\* C24 as stated: when src is a regular file and link is called, with dest
\* the other file or src itself, then however the call ends src is
\* afterwards a regular file with the content it had.
C24_SourceUntouched ==
    [][(LinkAnyStep /\ IsFile("src")) => SourceHoldsAfter(ReadText("src"))]_vars

\* The same for the calls whose dest is another path than src.
C24_WhenDestIsNotSource ==
    [][(LinkStep /\ IsFile("src")) => SourceHoldsAfter(ReadText("src"))]_vars


\* ------------------------------------- C25: a second new_slot write

\* parse_live_streams on the file as the write left it.
Reparsed == parse_live_streams(ReadText(file_path))

\* What a second write_live_streams of the same list computes, given the
\* document parsed from the file the first write left.
SecondWrite(strategy) ==
    With(Reparsed, LAMBDA r :
        WriteResult(r.lines, r.station_line_indexes, last.stations, strategy))

\* The second write leaves the content the first write left.
SecondWriteSame(strategy) ==
    \E w \in {SecondWrite(strategy)} : w.err = "" /\ w.text = ReadText(file_path)

\* The lines of the document the write was given that are no station lines.
RemovedLines == RemoveStationLines(last.lines, Sorted(last.idxs)).lines

\* C25 as stated: after a new_slot write of a list to a parseable file,
\* parsing the file again and writing the same list with new_slot once more
\* leaves the content of the file as the first write left it; no blank line
\* is added.
C25_NewSlotDoesNotGrow ==
    (WrittenNewSlot /\ Reparsed.ok) => SecondWriteSame("new_slot")

\* The same for documents in which nothing but blank lines and closing
\* braces stands beside the station lines, the last line terminated, and
\* lists without a line break in a field.
C25_WhenOnlyTailBesideStations ==
    (/\ WrittenNewSlot /\ Reparsed.ok
     /\ NoLineBreak(last.stations)
     /\ \A k \in 1..Len(last.lines) : Terminator(last.lines[k]) # <<>>
     /\ find_trailing_brace_tail_start(RemovedLines) = 0) =>
        SecondWriteSame("new_slot")

\* ------------------------------------- C26: a second in_place write

\* C26 as stated: after an in_place write of a non-empty list to a parseable
\* file, parsing the file again and writing the same list with in_place once
\* more leaves the content of the file as the first write left it.
C26_InPlaceIdempotent ==
    (WrittenInPlace /\ Reparsed.ok) => SecondWriteSame("in_place")

\* The same for lists without a line break in a field.
C26_WhenNoLineBreak ==
    (WrittenInPlace /\ Reparsed.ok /\ NoLineBreak(last.stations)) =>
        SecondWriteSame("in_place")


\* An in_place write of three stations to a file whose two station lines
\* were apart below a count line: the file has changed, its station lines
\* are now lines 1 to 3, and a second write would leave it as it is.
C26_Witness ==
    /\ WrittenInPlace /\ Reparsed.ok /\ NoLineBreak(last.stations)
    /\ last.idxs = <<1, 3>>
    /\ Len(last.stations) = 3
    /\ ReadText(file_path) # last.pre
    /\ Reparsed.station_line_indexes = <<1, 2, 3>>
    /\ SecondWriteSame("in_place")


\* ------------------------------------- C27: a drop on the station table

\* Rows the table of the model has at most.
MaxRows == 4

\* The lists StationModel.stations holds before the drop.
DropLists == UNION {[1..n -> {StationX, StationPad, StationNL}] : n \in 0..MaxRows}

\* The items of the mime data, as sets: row numbers, and -1 for an item that
\* is no run of digits.  The empty set is mime data without text.
RawRows == SUBSET (-1..MaxRows)

\* Where the view drops: on row r (parent invalid), or with row -1 on the
\* item parent_row, or with row -1 on no item (parent_row -1).
DropTargets(n) ==
    {[row |-> r, parent_row |-> -1] : r \in 0..(n + 1)}
        \cup {[row |-> -1, parent_row |-> q] : q \in -1..(n - 1)}

\* The actions of a drop and whether the data has the format MIME_ROWS.
DropKinds ==
    {[move |-> TRUE, has_format |-> TRUE], [move |-> FALSE, has_format |-> TRUE],
     [move |-> TRUE, has_format |-> FALSE]}

\* dst before the clamp: row, or for row -1 the parent's row, the length of
\* the list when the parent is not valid.
DropDst(sts, row, parent_row) ==
    IF row = -1 THEN (IF parent_row >= 0 THEN parent_row ELSE Len(sts)) ELSE row

\* StationModel.dropMimeData(data, action, row, column, parent) from its
\* first line on: [ok, stations, emitted], ok the return value, stations
\* the list of the model afterwards, emitted whether reordered was emitted.
StationModel_dropMimeData(sts, drag_enabled, kind, raw, row, parent_row) ==
    With({r \in raw : r >= 0}, LAMBDA src_rows :
        IF \/ ~drag_enabled \/ ~kind.move \/ ~kind.has_format
           \/ src_rows = {}
           \/ \E r \in src_rows : r >= Len(sts)
        THEN [ok |-> FALSE, stations |-> sts, emitted |-> FALSE]
        ELSE With(dropMimeData(sts, src_rows, DropDst(sts, row, parent_row)), LAMBDA d :
                 [ok |-> d.ok, stations |-> d.stations, emitted |-> d.ok]))

InitDrop ==
    /\ fs = [p \in {"ats"} |-> Absent]
    /\ data = <<>>
    /\ bak = <<>>
    /\ clock = 0
    /\ file_path = ""
    /\ original_lines = <<>>
    /\ station_line_indexes = <<>>
    /\ stations \in DropLists
    /\ pc = "idle"
    /\ page = "editor"
    /\ current_edit_source_row = -1
    /\ last = NoCall
    /\ calls = <<>>
    /\ host = NoHost
    /\ temp = {}
    /\ linked = NoLink

\* The view calls dropMimeData on the model; last.emitted records the
\* reordered signal, whose slot is on_model_reordered.
Drop ==
    /\ pc = "idle"
    /\ \E drag_enabled \in BOOLEAN, kind \in DropKinds, raw \in RawRows,
          t \in DropTargets(Len(stations)) :
          \E d \in {StationModel_dropMimeData(stations, drag_enabled, kind, raw,
                                              t.row, t.parent_row)} :
              /\ stations' = d.stations
              /\ last' = [before |-> stations, drag_enabled |-> drag_enabled,
                          kind |-> kind, src_rows |-> {r \in raw : r >= 0},
                          dst |-> DropDst(stations, t.row, t.parent_row),
                          ok |-> d.ok, emitted |-> d.emitted]
    /\ pc' = "dropped"
    /\ UNCHANGED <<fs, data, bak, clock, file_path, original_lines, station_line_indexes,
                   page, current_edit_source_row, calls, linkVars>>

NextDrop == Drop

SpecDrop == InitDrop /\ [][NextDrop]_vars

\* The one-to-one maps of 1..n onto itself.
Bijections(n) == {f \in [1..n -> 1..n] : \A i, j \in 1..n : f[i] = f[j] => i = j}

\* new is old with the rows S (0-based) moved: some one-to-one map takes
\* every place of old to the place of the same station in new, the places
\* of S go to places next to each other in their old order, and the other
\* places keep their order.
MovedRows(old, new, S) ==
    /\ Len(new) = Len(old)
    /\ \E f \in Bijections(Len(old)) :
          /\ \A i \in 1..Len(old) : new[f[i]] = old[i]
          /\ \A i, j \in 1..Len(old) :
                (i < j /\ ((i - 1) \in S <=> (j - 1) \in S)) => f[i] < f[j]
          /\ \A i, j \in 1..Len(old) :
                ((i - 1) \in S /\ (j - 1) \in S) =>
                    \A k \in 1..Len(old) :
                        (f[i] < f[k] /\ f[k] < f[j]) => (k - 1) \in S

\* C27: dropMimeData either returns False, leaves the list as it was and
\* emits no reordered signal, which it does when drag is disabled, when the
\* data names no row, and when the target is within first selected row ..
\* last selected row + 1; or it returns True and emits the signal, and the
\* new list is a permutation of the old one of the same length in which the
\* dragged stations are next to each other in their old order and the
\* others keep their old order.
C27_WellFormedMove ==
    pc = "dropped" =>
        /\ \/ ~last.ok /\ stations = last.before /\ ~last.emitted
           \/ last.ok /\ last.emitted /\ MovedRows(last.before, stations, last.src_rows)
        /\ (\/ ~last.drag_enabled
            \/ last.src_rows = {}
            \/ SetMin(last.src_rows) <= last.dst /\ last.dst <= SetMax(last.src_rows) + 1)
               => ~last.ok

\* Rows 0 and 2 of four dropped below the last row: they are the last two
\* rows now, and the list has changed.
C27_Witness ==
    /\ pc = "dropped" /\ last.ok
    /\ last.before = <<StationX, StationPad, StationNL, StationX>>
    /\ last.src_rows = {0, 2}
    /\ last.dst = 4
    /\ stations = <<StationPad, StationX, StationX, StationNL>>

=============================================================================
